---- MODULE Spec2Model ----
(***************************************************************************)
(* The passphrase search of the three brute-force scripts:                 *)
(*   "hybrid"  src/slip39_and_bip39_hybrid_bruteforce.py  (four methods)   *)
(*   "bip39"   src/bip39_bruteforce.py                    (one method)     *)
(*   "slip39"  src/main.py                                (one method)     *)
(* A Python str is a sequence of one-character strings, so that lower(),   *)
(* startswith(), strip(), split() and join() are computed, not assumed.    *)
(***************************************************************************)
EXTENDS Integers, Sequences, FiniteSets, TLC

\* ------------------------------------------------------------------ bounds

\* The largest number of passphrase components of a run.
MaxComponents == 3

\* The master secrets of the runs are numbered from 0 to MaxSecretSeed.
MaxSecretSeed == 12

\* The largest number of calls of a derivation strategy looked at in a row.
MaxDeriveCalls == 3

\* The largest number of components of a run whose progress reports are
\* looked at (six components give 1956 candidates).
MaxProgressComponents == 6

\* The clock of such a run is read up to this many seconds after its start.
MaxClock == 30

\* The largest number of words of a line of MNEMONIC that is parsed into
\* shares (66 words are two shares of 33).
MaxShareWords == 66

\* ----------------------------------------------------------------- strings

AddrLen == 40

Rep(c, n) == [i \in 1..n |-> c]

Prefix0x == <<"0", "x">>

EmptyStr == <<>>

Whitespace == {" ", "\n"}

HexDigits ==
    {"0", "1", "2", "3", "4", "5", "6", "7", "8", "9",
     "a", "b", "c", "d", "e", "f", "A", "B", "C", "D", "E", "F"}

\* str.lower() on one character.
LowerChar(c) ==
    CASE c = "A" -> "a" [] c = "B" -> "b" [] c = "C" -> "c"
      [] c = "D" -> "d" [] c = "E" -> "e" [] c = "F" -> "f"
      [] c = "X" -> "x" [] c = "Z" -> "z" [] OTHER -> c

\* str.lower()
Lower(s) == [i \in 1..Len(s) |-> LowerChar(s[i])]

\* str.startswith(p)
StartsWith(s, p) == Len(s) >= Len(p) /\ SubSeq(s, 1, Len(p)) = p

RECURSIVE LStrip(_)
LStrip(s) ==
    IF s # <<>> /\ Head(s) \in Whitespace THEN LStrip(Tail(s)) ELSE s

RECURSIVE RStrip(_)
RStrip(s) ==
    IF s # <<>> /\ s[Len(s)] \in Whitespace
    THEN RStrip(SubSeq(s, 1, Len(s) - 1))
    ELSE s

\* str.strip()
Strip(s) == RStrip(LStrip(s))

\* The k-th smallest element of a set of positions.
KthOf(P, k) == CHOOSE i \in P : Cardinality({j \in P : j <= i}) = k

\* str.split(sep) for a one-character separator: the fields between the
\* separators, empty fields kept. cur is what was read of the first field
\* before s.
SplitOn(s, sep, cur) ==
    LET t    == cur \o s
        seps == {i \in 1..Len(t) : t[i] = sep}
        n    == Cardinality(seps)
        at(k) == IF k = 0 THEN 0 ELSE IF k = n + 1 THEN Len(t) + 1 ELSE KthOf(seps, k)
    IN  [k \in 1..(n + 1) |-> SubSeq(t, at(k - 1) + 1, at(k) - 1)]

\* str.split() with no argument: the runs of non-whitespace characters.
\* cur is what was read of the first run before s.
SplitWhitespace(s, cur) ==
    LET t      == cur \o s
        starts == {i \in 1..Len(t) :
                      t[i] \notin Whitespace /\ (i = 1 \/ t[i - 1] \in Whitespace)}
        ends   == {i \in 1..Len(t) :
                      t[i] \notin Whitespace /\ (i = Len(t) \/ t[i + 1] \in Whitespace)}
    IN  [k \in 1..Cardinality(starts) |->
            SubSeq(t, KthOf(starts, k), KthOf(ends, k))]

\* sep.join(parts)
RECURSIVE JoinStr(_, _)
JoinStr(sep, parts) ==
    IF parts = <<>> THEN <<>>
    ELSE IF Len(parts) = 1 THEN parts[1]
    ELSE parts[1] \o sep \o JoinStr(sep, Tail(parts))

\* [f(x) for x in xs if keep(x)] with f = strip and keep = non-empty.
RECURSIVE StripAndDropEmpty(_)
StripAndDropEmpty(parts) ==
    IF parts = <<>> THEN <<>>
    ELSE (IF Strip(Head(parts)) = <<>> THEN <<>> ELSE <<Strip(Head(parts))>>)
         \o StripAndDropEmpty(Tail(parts))

\* The parse of WORDS: comma separated when a comma is present, else
\* whitespace separated.
ParseWords(components_str) ==
    IF \E i \in 1..Len(components_str) : components_str[i] = ","
    THEN StripAndDropEmpty(SplitOn(components_str, ",", <<>>))
    ELSE SplitWhitespace(components_str, <<>>)

\* --------------------------------------------------------------- generator

\* The concatenation of a sequence of sequences.
RECURSIVE Flatten(_)
Flatten(ss) == IF ss = <<>> THEN <<>> ELSE Head(ss) \o Flatten(Tail(ss))

\* itertools.combinations over positions lo..n taken r at a time, as
\* increasing position tuples in the order itertools emits them.
RECURSIVE combinations(_, _, _)
combinations(lo, n, r) ==
    IF r = 0 THEN << <<>> >>
    ELSE IF n - lo + 1 < r THEN <<>>
    ELSE Flatten([k \in 1..(n - lo + 1) |->
            LET i == lo + k - 1
                rest == combinations(i + 1, n, r - 1)
            IN  [j \in 1..Len(rest) |-> <<i>> \o rest[j]]])

RemoveAt(t, i) == SubSeq(t, 1, i - 1) \o SubSeq(t, i + 1, Len(t))

\* Mutant: in place of the orderings of a subset, as many copies of the
\* subset in its increasing order as it has positions.
permutations_CopiesOfCombo(t) == [i \in 1..Len(t) |-> t]

\* itertools.permutations of a tuple, in the order itertools emits them
\* (lexicographic in the positions of the tuple).
RECURSIVE permutations(_)
permutations(t) ==
    IF t = <<>> THEN << <<>> >>
    ELSE Flatten([i \in 1..Len(t) |->
            LET rest == permutations(RemoveAt(t, i))
            IN  [j \in 1..Len(rest) |-> <<t[i]>> \o rest[j]]])

\* Mutant: the lengths taken from the longest to the shortest.
PermutationYields_LongestFirst(n) ==
    Flatten([k \in 1..n |->
        LET combos == combinations(1, n, n - k + 1)
        IN  Flatten([c \in 1..Len(combos) |-> permutations(combos[c])])])

\* The three nested loops shared by the generators: for each length, each
\* combination, each permutation. A yield is the tuple of component
\* positions; the empty tuple stands for  yield "".
NestedLoops(n) ==
    Flatten([length \in 1..n |->
        LET combos == combinations(1, n, length)
        IN  Flatten([c \in 1..Len(combos) |-> permutations(combos[c])])])

\* The yields of the nested loops for each number of components, computed
\* once.
YieldsBySize == [n \in 0..MaxComponents |-> NestedLoops(n)]

\* The yields of the nested loops over n components.
PermutationYields(n) == YieldsBySize[n]

\* generate_passphrase_combinations of the hybrid script: yields "" first.
generate_passphrase_combinations(n) == << <<>> >> \o PermutationYields(n)

\* generate_word_combinations of bip39_bruteforce.py and of main.py.
generate_word_combinations(n) == PermutationYields(n)

\* Mutant: range(1, len(words)) in place of range(1, len(words) + 1), so
\* that the permutations of all the components are never yielded.
Generator_WithoutFullLength(e, n) ==
    (IF e = "hybrid" THEN << <<>> >> ELSE <<>>)
    \o (IF n = 0 THEN <<>> ELSE
        Flatten([length \in 1..(n - 1) |->
            LET combos == combinations(1, n, length)
            IN  Flatten([c \in 1..Len(combos) |-> permutations(combos[c])])]))

Generator(e, n) ==
    IF e = "hybrid" THEN generate_passphrase_combinations(n)
    ELSE generate_word_combinations(n)

\* The separator of the join of a yield: "".join in the hybrid and the BIP-39
\* scripts, " ".join in main.py.
JoinSeparator(e) == IF e = "slip39" THEN <<" ">> ELSE <<>>

\* Mutant: a separator between the words only from three words on.
Candidate_SpaceFromThreeWords(e, comps, perm) ==
    JoinStr(IF Len(perm) >= 3 THEN <<" ">> ELSE <<>>,
            [i \in 1..Len(perm) |-> comps[perm[i]]])

\* The string a yield stands for.
Candidate(e, comps, perm) ==
    JoinStr(JoinSeparator(e), [i \in 1..Len(perm) |-> comps[perm[i]]])

\* ------------------------------------------------------------ configuration

Engines == {"hybrid", "bip39", "slip39"}

\* The derivation methods of an engine, in registration order: the keys of
\* the methods dict of test_all_methods, the one derivation of the BIP-39
\* script, the one recovery of main.py.
Methods(e) ==
    CASE e = "hybrid" -> <<"keystone", "trezor_bip39", "manual_bip39", "trezor_pure">>
      [] e = "bip39"  -> <<"bip39">>
      [] OTHER        -> <<"slip39">>

MethodIds(e) == 1..Len(Methods(e))

\* The words the components are drawn from.
Alphabet == <<"a", "b", "c", "d", "e", "f", "g", "h">>

\* n distinct one-letter components.
DistinctWords(n) == [i \in 1..n |-> <<Alphabet[i]>>]

\* n components, the last one textually equal to the first.
RepeatedWords(n) == [i \in 1..n |-> IF i = n THEN <<Alphabet[1]>> ELSE <<Alphabet[i]>>]

\* The component lists of the runs: for each size up to MaxComponents a list
\* of distinct words and, from size two, a list that repeats a word.
ComponentLists ==
    {DistinctWords(n) : n \in 0..MaxComponents}
    \cup {RepeatedWords(n) : n \in 2..MaxComponents}

\* The values of WORDS in .env: each component list comma separated, the
\* lists of two also whitespace separated, and a value that holds a
\* separator only.
WordsEnvs ==
    {JoinStr(<<",">>, l) : l \in ComponentLists}
    \cup {JoinStr(<<" ">>, l) : l \in {m \in ComponentLists : Len(m) = 2}}
    \cup {<<",">>}

ValidMnemonic == "valid"

MnemonicEnvs == {"", ValidMnemonic, "invalid"}

\* Addresses as the derivation libraries return them: 0x and forty hex
\* digits of mixed case.
AddrA == Prefix0x \o <<"A">> \o Rep("a", AddrLen - 1)

AddrB == Prefix0x \o Rep("b", AddrLen)

\* The values of TARGET_ADDRESS in .env: absent, AddrA without the prefix in
\* lower case, AddrA in upper case, an address no method derives, and a
\* string that is no address.
TargetEnvs ==
    {EmptyStr,
     Rep("a", AddrLen),
     Prefix0x \o Rep("A", AddrLen),
     Prefix0x \o Rep("c", AddrLen),
     <<"z", "z">>}

\* The normalisation of the target address: lower case (and strip, in the
\* BIP-39 script), then the prefix when it is absent.
NormalizeTarget(e, t) ==
    LET l == IF e = "bip39" THEN Strip(Lower(t)) ELSE Lower(t)
    IN  IF StartsWith(l, Prefix0x) THEN l ELSE Prefix0x \o l

\* validate_ethereum_address: forty hex digits after an optional 0x.
validate_ethereum_address(address) ==
    IF address = EmptyStr THEN FALSE
    ELSE LET a == IF StartsWith(address, Prefix0x)
                  THEN SubSeq(address, 3, Len(address))
                  ELSE address
         IN  Len(a) = AddrLen /\ \A i \in 1..Len(a) : a[i] \in HexDigits

\* slip39.recover([mnemonic]) and Mnemonic.check(mnemonic): whether the
\* library accepts the mnemonic.
MnemonicAccepted(m) == m = ValidMnemonic

\* ---------------------------------------------------------------- matching

\* What stands for a call that raises (no address equals it).
DerivationError == <<"DerivationError">>

\* The secret main.py recovers.
Secret == <<"s">>

\* What one derivation call can return: an address (a secret in main.py),
\* or it raises. slip39.recover of main.py raises for every passphrase when
\* the library does not accept the shares.
DeriveOutcomes(e, mnemonic) ==
    IF e = "slip39"
    THEN (IF MnemonicAccepted(mnemonic) THEN {Secret, DerivationError}
          ELSE {DerivationError})
    ELSE {AddrA, AddrB, DerivationError}

\* address.lower() == target_address.lower()
Matches(address, target) == Lower(address) = Lower(target)

\* Mutant: the derivation call of the BIP-39 script outside its try block.
CatchesDerivationError_NotInBip39(e) == e # "bip39"

\* Whether the except clause around a derivation call catches the error.
CatchesDerivationError(e) == TRUE

\* One entry of the results of test_all_methods (the one derivation call of
\* the other two scripts, in the same shape).
MethodResult(e, m, out, target) ==
    IF out = DerivationError
    THEN [name |-> Methods(e)[m], address |-> EmptyStr, matches |-> FALSE,
          error |-> TRUE]
    ELSE [name |-> Methods(e)[m], address |-> out,
          matches |-> IF e = "slip39" THEN TRUE ELSE Matches(out, target),
          error |-> FALSE]

\* Mutant: the methods taken from the last registered to the first.
NextMethod_Reversed(e, res) == Len(Methods(e)) - Len(res)

\* for method_key, method_name in methods.items(): the method of the next
\* call, in the insertion order of the dict.
NextMethod(e, res) == Len(res) + 1

\* Whether a derivation call of the engine calls slip39.recover: every
\* method of the hybrid script and try_recover_slip39 do, the BIP-39 script
\* derives from the mnemonic with eth_account.
CallsRecover(e) == e # "bip39"

\* Whether the account index is an option of the script (--account-index);
\* the other two scripts always derive at index 0.
HasAccountIndexOption(e) == e = "bip39"

\* The truth value of a str in  if result:
IsTruthy(str) == str # EmptyStr

NoMethod == 0

\* Mutant: only the first method's entry is looked at.
FirstMatch_FirstMethodOnly(res) ==
    IF res # <<>> /\ res[1].matches THEN 1 ELSE NoMethod

\* Mutant: the loop over the results does not break, so the last matching
\* method wins.
FirstMatch_LastWins(res) ==
    IF \E i \in DOMAIN res : res[i].matches
    THEN CHOOSE i \in DOMAIN res :
            res[i].matches /\ \A j \in DOMAIN res : res[j].matches => j <= i
    ELSE NoMethod

\* The first method, in the order of the results, whose entry matches; the
\* loop over the results breaks (returns) there.
FirstMatch(res) ==
    IF \E i \in DOMAIN res : res[i].matches
    THEN CHOOSE i \in DOMAIN res :
            res[i].matches /\ \A j \in DOMAIN res : res[j].matches => i <= j
    ELSE NoMethod

\* Mutant: the loop does not skip the empty passphrase the generator yields.
SkipsCandidate_Never(e, p) == FALSE

\* if passphrase == "": continue
SkipsCandidate(e, p) == e = "hybrid" /\ p = EmptyStr

\* Mutant: the for loop never sees the end of the generator.
GeneratorExhausted_Never(g) == FALSE

\* The for loop over the generator ends when it has no yield left.
GeneratorExhausted(g) == g = <<>>

\* Mutant: the counter is not incremented.
NextAttempt_Unchanged(a) == a

\* attempt += 1
NextAttempt(a) == a + 1

RECURSIVE Factorial(_)
Factorial(k) == IF k = 0 THEN 1 ELSE k * Factorial(k - 1)

\* math.comb
Comb(n, r) == Factorial(n) \div (Factorial(r) * Factorial(n - r))

RECURSIVE SumTo(_, _)
SumTo(f, n) == IF n = 0 THEN 0 ELSE f[n] + SumTo(f, n - 1)

\* count_total_combinations of the hybrid script: starts at one for the
\* empty passphrase and counts the combinations by listing them.
count_total_combinations(n) ==
    LET term == [length \in 1..n |-> Len(combinations(1, n, length)) * Factorial(length)]
    IN  1 + SumTo(term, n)

\* The total of brute_force_bip39_passphrase and brute_force_slip39_words.
TotalByFormula(n) ==
    LET term == [r \in 1..n |-> Comb(n, r) * Factorial(r)]
    IN  SumTo(term, n)

TotalCombinations(e, n) ==
    IF e = "hybrid" THEN count_total_combinations(n) ELSE TotalByFormula(n)

\* The number of combinations the computation of the total lists:
\* count_total_combinations takes len(list(itertools.combinations(...))) for
\* every length, the other two scripts call math.comb.
CombinationsListedForTotal(e, n) ==
    LET listed == [length \in 1..n |-> Len(combinations(1, n, length))]
    IN  IF e = "hybrid" THEN SumTo(listed, n) ELSE 0

\* ------------------------------------------------------------------- state

VARIABLES
    engine,             \* which script runs
    env,                \* the values of MNEMONIC, WORDS, TARGET_ADDRESS
    pc,                 \* where main is
    components,         \* the parsed components (words)
    target_address,     \* the normalised target
    gen,                \* the generator: the yields it has yet to make
    yielded,            \* history: the yields made so far, in order
    attempt,            \* the attempt counter of the loop
    total_combinations, \* the total computed before the loop
    passphrase,         \* the passphrase last evaluated
    results,            \* the results of the last evaluation, per method
    outcome,            \* how the run ended
    evaluated,          \* history: the passphrases evaluated, in order
    callCount,          \* history: the derivation calls made for each of them
    matchedAt,          \* history: the positions in evaluated with a match
    cancelRequested,    \* whether the caller has signalled cancellation
    cancelAttempt,      \* the attempt counter when it was signalled
    externalCalls,      \* history: the calls of slip39.recover and of the
                        \* balance lookup, each with the place of main it
                        \* was made at
    report,             \* what the run tells its caller at the end
    master_secret,      \* the recovered master secret, as bytes
    secret_output,      \* the rendering of the secret the run has printed
    lib_rejects,        \* the key material the derivation library rejects
    derive_calls,       \* the number of strategy calls made so far
    kept_call,          \* an earlier strategy call: arguments and result
    last_call,          \* the latest strategy call: arguments and result
    yields_left,        \* the number of yields the generator has yet to make
    current_time,       \* time.time() as last read, in seconds from the start
    last_progress_time, \* the time of the last progress report
    match_found,        \* whether the attempt just made has matched
    show_progress,      \* whether the attempt just made was reported
    memory_usage,       \* the memory sample of the attempt just made, if any
    gc_collected,       \* whether gc.collect() ran in the attempt just made
    share_input,        \* the mnemonic string given to parse_mnemonic_shares
    shares,             \* the shares it returned
    max_retries,        \* EthereumRPCChecker.max_retries
    request_count,      \* EthereumRPCChecker.request_count
    issued,             \* history: the ids of the JSON-RPC requests built
    last_rpc            \* the call of the checker just made

vars ==
    <<engine, env, pc, components, target_address, gen, yielded, attempt,
      total_combinations, passphrase, results, outcome, evaluated, callCount,
      matchedAt, cancelRequested, cancelAttempt, externalCalls, report,
      master_secret, secret_output, lib_rejects, derive_calls, kept_call,
      last_call, yields_left, current_time, last_progress_time, match_found,
      show_progress, memory_usage, gc_collected, share_input, shares,
      max_retries, request_count, issued, last_rpc>>

\* The variables of the rendering of the secret.
secretVars == <<master_secret, secret_output>>

\* The variables of the calls of a derivation strategy on its own.
deriveVars == <<lib_rejects, derive_calls, kept_call, last_call>>

\* The variables of the progress reports of the hybrid script.
progressVars ==
    <<yields_left, current_time, last_progress_time, match_found,
      show_progress, memory_usage, gc_collected>>

\* The variables of the parse of the shares in main.py.
shareVars == <<share_input, shares>>

\* The variables of an EthereumRPCChecker used on its own.
rpcVars == <<max_retries, request_count, issued, last_rpc>>

\* The variables outside the search and the rendering of the secret.
sideVars == <<deriveVars, progressVars, shareVars, rpcVars>>

\* No strategy call yet.
NoCall == [made |-> FALSE, number |-> 0, args |-> <<>>, result |-> <<>>]

\* No strategy is called on its own.
DeriveAtRest ==
    /\ lib_rejects = {}
    /\ derive_calls = 0
    /\ kept_call = NoCall
    /\ last_call = NoCall

\* get_memory_usage was not called.
NotSampled == [sampled |-> FALSE, available |-> FALSE, rss_mb |-> 0]

\* No attempt made, the clock at the start.
ProgressAtRest ==
    /\ yields_left = 0
    /\ current_time = 0
    /\ last_progress_time = 0
    /\ match_found = FALSE
    /\ show_progress = FALSE
    /\ memory_usage = NotSampled
    /\ gc_collected = FALSE

\* No mnemonic is parsed.
SharesAtRest ==
    /\ share_input = EmptyStr
    /\ shares = <<>>

\* The default of max_retries.
DefaultMaxRetries == 3

\* No call of an EthereumRPCChecker.
NoRpc ==
    [kind |-> "none", addresses |-> <<>>, ids |-> <<>>, sent |-> <<>>,
     outcomes |-> <<>>, how |-> "none", body |-> <<>>, value |-> [none |-> TRUE, str |-> <<>>],
     results |-> <<>>]

\* The checker as constructed with the default max_retries, unused.
RpcAtRest ==
    /\ max_retries = DefaultMaxRetries
    /\ request_count = 0
    /\ issued = <<>>
    /\ last_rpc = NoRpc

\* Nothing has happened outside the search.
SideInit ==
    /\ DeriveAtRest
    /\ ProgressAtRest
    /\ SharesAtRest
    /\ RpcAtRest

NoOutcome ==
    [kind |-> "None", candidate |-> EmptyStr, method |-> NoMethod,
     address |-> EmptyStr, attempts |-> 0]

\* Nothing told to the caller yet. names holds the fields the final output
\* states: "candidate", "strategy", "account_index", "address".
NoReport ==
    [found |-> FALSE, names |-> {}, candidate |-> EmptyStr, method |-> NoMethod,
     address |-> EmptyStr, verified |-> FALSE]

Init ==
    /\ engine \in Engines
    /\ env \in [MNEMONIC : MnemonicEnvs, WORDS : WordsEnvs, TARGET_ADDRESS : TargetEnvs]
    /\ pc = "Init"
    /\ components = <<>>
    /\ target_address = EmptyStr
    /\ gen = <<>>
    /\ yielded = <<>>
    /\ attempt = 0
    /\ total_combinations = 0
    /\ passphrase = EmptyStr
    /\ results = <<>>
    /\ outcome = NoOutcome
    /\ evaluated = <<>>
    /\ callCount = <<>>
    /\ matchedAt = {}
    /\ cancelRequested = FALSE
    /\ cancelAttempt = 0
    /\ externalCalls = {}
    /\ report = NoReport
    /\ master_secret = <<>>
    /\ secret_output = <<>>
    /\ SideInit

\* ----------------------------------------------------------------- actions

\* What the configuration checks of main reject, in the order of the code:
\* the hybrid script checks that the three values are present; the BIP-39
\* script also checks the mnemonic, the parsed words and the format of the
\* target; main.py has no target.
ConfigRejected(e, v) ==
    CASE e = "hybrid" ->
            \/ Strip(v.WORDS) = EmptyStr
            \/ v.MNEMONIC = ""
            \/ Strip(v.TARGET_ADDRESS) = EmptyStr
      [] e = "bip39" ->
            \/ v.MNEMONIC = ""
            \/ ~MnemonicAccepted(v.MNEMONIC)
            \/ ParseWords(Strip(v.WORDS)) = <<>>
            \/ Strip(v.TARGET_ADDRESS) = EmptyStr
            \/ ~validate_ethereum_address(Strip(v.TARGET_ADDRESS))
      [] OTHER ->
            \/ v.MNEMONIC = ""
            \/ ParseWords(Strip(v.WORDS)) = <<>>

Terminate(kind, cand, m, addr, n) ==
    /\ pc' = "Terminated"
    /\ outcome' = [kind |-> kind, candidate |-> cand, method |-> m,
                   address |-> addr, attempts |-> n]

\* Mutant: the outcome is set and the loop goes on (no return).
Found_AndContinue(cand, m, addr, n) ==
    /\ pc' = "Enumerating"
    /\ outcome' = [kind |-> "Found", candidate |-> cand, method |-> m,
                   address |-> addr, attempts |-> n]

\* A match: the search is over, what is left of the run is the report of
\* the match (SUCCESS, final verification, balance) before it returns.
Found(cand, m, addr, n) ==
    /\ pc' = "Reporting"
    /\ outcome' = [kind |-> "Found", candidate |-> cand, method |-> m,
                   address |-> addr, attempts |-> n]

\* main, from the start to the end of the configuration: read .env, reject
\* what is missing or malformed, parse the words, normalise the target.
LoadConfig ==
    /\ pc = "Init"
    /\ IF ConfigRejected(engine, env)
       THEN /\ Terminate("InvalidConfiguration", EmptyStr, NoMethod, EmptyStr, 0)
            /\ UNCHANGED <<components, target_address>>
       ELSE /\ components' = ParseWords(Strip(env.WORDS))
            /\ target_address' =
                   IF engine = "slip39" THEN EmptyStr
                   ELSE NormalizeTarget(engine, Strip(env.TARGET_ADDRESS))
            /\ pc' = IF engine = "hybrid" THEN "Recovering" ELSE "TestingEmpty"
            /\ UNCHANGED outcome
    /\ UNCHANGED <<engine, env, gen, yielded, attempt, total_combinations,
                   passphrase, results, evaluated, callCount, matchedAt,
                   cancelRequested, cancelAttempt, externalCalls, report>>
    /\ UNCHANGED <<secretVars, sideVars>>

\* Step 1 of the hybrid script: slip39.recover([mnemonic]); a failure ends
\* the run.
RecoverSecret ==
    /\ pc = "Recovering"
    /\ externalCalls' = externalCalls \cup {<<"recover", pc>>}
    /\ IF MnemonicAccepted(env.MNEMONIC)
       THEN pc' = "TestingEmpty" /\ UNCHANGED outcome
       ELSE Terminate("RecoveryError", EmptyStr, NoMethod, EmptyStr, 0)
    /\ UNCHANGED <<engine, env, components, target_address, gen, yielded,
                   attempt, total_combinations, passphrase, results, evaluated,
                   callCount, matchedAt, cancelRequested, cancelAttempt, report>>
    /\ UNCHANGED <<secretVars, sideVars>>

\* One derivation call, for the passphrase under evaluation and the next
\* method in registration order: it returns an address or raises, and the
\* except clause turns the error into a result that does not match. The
\* first call for a passphrase enters it in the history of evaluations.
Derive ==
    /\ pc \in {"TestingEmpty", "Evaluating"}
    /\ Len(results) < Len(Methods(engine))
    /\ \E out \in DeriveOutcomes(engine, env.MNEMONIC) :
          LET r == MethodResult(engine, NextMethod(engine, results), out,
                                target_address)
              log == IF results = <<>> THEN Append(evaluated, passphrase) ELSE evaluated
          IN  /\ results' = Append(results, r)
              /\ evaluated' = log
              /\ callCount' = IF results = <<>>
                              THEN Append(callCount, 1)
                              ELSE [callCount EXCEPT ![Len(callCount)] = @ + 1]
              /\ matchedAt' = IF r.matches THEN matchedAt \cup {Len(log)} ELSE matchedAt
              /\ IF r.error /\ ~CatchesDerivationError(engine)
                 THEN Terminate("Crashed", passphrase, NoMethod, EmptyStr, attempt)
                 ELSE UNCHANGED <<pc, outcome>>
    /\ externalCalls' = IF CallsRecover(engine)
                        THEN externalCalls \cup {<<"recover", pc>>}
                        ELSE externalCalls
    /\ UNCHANGED <<engine, env, components, target_address, gen, yielded,
                   attempt, total_combinations, passphrase, cancelRequested,
                   cancelAttempt, report>>
    /\ UNCHANGED <<secretVars, sideVars>>

\* After the test of the empty passphrase with every method: the first
\* matching method ends the search; without a match the total is computed,
\* the counter set to zero and the generator created.
DecideEmpty ==
    /\ pc = "TestingEmpty"
    /\ Len(results) = Len(Methods(engine))
    /\ IF FirstMatch(results) # NoMethod
       THEN /\ Found(passphrase, FirstMatch(results),
                     results[FirstMatch(results)].address, 0)
            /\ UNCHANGED <<gen, total_combinations>>
       ELSE /\ pc' = "Enumerating"
            /\ gen' = Generator(engine, Len(components))
            /\ total_combinations' = TotalCombinations(engine, Len(components))
            /\ UNCHANGED outcome
    /\ UNCHANGED <<engine, env, components, target_address, yielded, attempt,
                   passphrase, results, evaluated, callCount, matchedAt,
                   cancelRequested, cancelAttempt, externalCalls, report>>
    /\ UNCHANGED <<secretVars, sideVars>>

\* The head of one iteration of the loop: take the next yield of the
\* generator; skip it, or count it and start its evaluation.
NextCandidate ==
    /\ pc = "Enumerating"
    /\ gen # <<>>
    /\ LET perm == Head(gen)
           p == Candidate(engine, components, perm)
       IN  /\ gen' = Tail(gen)
           /\ yielded' = Append(yielded, perm)
           /\ IF SkipsCandidate(engine, p)
              THEN UNCHANGED <<attempt, passphrase, results, pc>>
              ELSE /\ attempt' = NextAttempt(attempt)
                   /\ passphrase' = p
                   /\ results' = <<>>
                   /\ pc' = "Evaluating"
    /\ UNCHANGED <<engine, env, components, target_address, total_combinations,
                   outcome, evaluated, callCount, matchedAt, cancelRequested,
                   cancelAttempt, externalCalls, report>>
    /\ UNCHANGED <<secretVars, sideVars>>

\* The rest of the iteration, after every method was called: the first
\* matching method ends the search, else the loop goes on.
Decide ==
    /\ pc = "Evaluating"
    /\ Len(results) = Len(Methods(engine))
    /\ IF FirstMatch(results) # NoMethod
       THEN Found(passphrase, FirstMatch(results),
                  results[FirstMatch(results)].address, attempt)
       ELSE pc' = "Enumerating" /\ UNCHANGED outcome
    /\ UNCHANGED <<engine, env, components, target_address, gen, yielded,
                   attempt, total_combinations, passphrase, results, evaluated,
                   callCount, matchedAt, cancelRequested, cancelAttempt,
                   externalCalls, report>>
    /\ UNCHANGED <<secretVars, sideVars>>

\* What the run states about the match before it returns. The hybrid
\* script prints the passphrase, the name of the method and the address
\* (for the empty passphrase, the method and the address); the BIP-39
\* script prints the passphrase, the account index, the address and the
\* verdict of its final verification, which compares with the target as it
\* was configured; main.py prints the passphrase only when it is truthy, and
\* reports that nothing was found otherwise.
ReportOf(e) ==
    CASE e = "hybrid" ->
            [found |-> TRUE, names |-> {"candidate", "strategy", "address"},
             candidate |-> outcome.candidate, method |-> outcome.method,
             address |-> outcome.address,
             verified |-> outcome.attempts = 0 \/ FirstMatch(results) # NoMethod]
      [] e = "bip39" ->
            [found |-> TRUE, names |-> {"candidate", "account_index", "address"},
             candidate |-> outcome.candidate, method |-> NoMethod,
             address |-> outcome.address,
             verified |-> Lower(outcome.address) = Lower(Strip(env.TARGET_ADDRESS))]
      [] OTHER ->
            IF IsTruthy(outcome.candidate)
            THEN [found |-> TRUE, names |-> {"candidate", "address"},
                  candidate |-> outcome.candidate, method |-> NoMethod,
                  address |-> outcome.address, verified |-> TRUE]
            ELSE NoReport

\* The external calls made while the match is reported: the final
\* verification of the hybrid script derives with every method again,
\* main.py looks up the balance when asked to and recovers the secret once
\* more for a truthy passphrase.
ReportCalls(e, check_balance) ==
    CASE e = "hybrid" ->
            IF outcome.attempts = 0 THEN {} ELSE {<<"recover", "Reporting">>}
      [] e = "bip39" -> {}
      [] OTHER ->
            (IF check_balance THEN {<<"balance", "Reporting">>} ELSE {})
            \cup (IF IsTruthy(outcome.candidate)
                  THEN {<<"recover", "Reporting">>} ELSE {})

\* After a match: the report of the match, then main returns.
Report ==
    /\ pc = "Reporting"
    /\ \E check_balance \in BOOLEAN :
          externalCalls' = externalCalls \cup ReportCalls(engine, check_balance)
    /\ report' = ReportOf(engine)
    /\ pc' = "Terminated"
    /\ UNCHANGED <<engine, env, components, target_address, gen, yielded,
                   attempt, total_combinations, passphrase, results, outcome,
                   evaluated, callCount, matchedAt, cancelRequested,
                   cancelAttempt>>
    /\ UNCHANGED <<secretVars, sideVars>>

\* The generator is exhausted: the loop ends and the run reports that no
\* passphrase was found.
Exhaust ==
    /\ pc = "Enumerating"
    /\ GeneratorExhausted(gen)
    /\ Terminate("Exhausted", EmptyStr, NoMethod, EmptyStr, attempt)
    /\ UNCHANGED <<engine, env, components, target_address, gen, yielded,
                   attempt, total_combinations, passphrase, results, evaluated,
                   callCount, matchedAt, cancelRequested, cancelAttempt,
                   externalCalls, report>>
    /\ UNCHANGED <<secretVars, sideVars>>

\* The caller signals cancellation while the loop runs.
SignalCancel ==
    /\ pc = "Enumerating"
    /\ ~cancelRequested
    /\ cancelRequested' = TRUE
    /\ cancelAttempt' = attempt
    /\ UNCHANGED <<engine, env, pc, components, target_address, gen, yielded,
                   attempt, total_combinations, passphrase, results, outcome,
                   evaluated, callCount, matchedAt, externalCalls, report>>
    /\ UNCHANGED <<secretVars, sideVars>>

Next ==
    \/ LoadConfig
    \/ RecoverSecret
    \/ Derive
    \/ DecideEmpty
    \/ NextCandidate
    \/ Decide
    \/ Report
    \/ Exhaust

Spec == Init /\ [][Next]_vars

\* main runs on one thread that is never suspended for good: a step that
\* can be taken is taken.
SpecLive == Init /\ [][Next]_vars /\ WF_vars(Next)

NextCancel ==
    \/ Next
    \/ SignalCancel

SpecCancel == Init /\ [][NextCancel]_vars

\* ------------------------------------------------- the match, on its own

\* Target entries and derived identities that differ in letter case and in
\* the presence (and the case) of the prefix.
MatchTargets ==
    {Rep("a", AddrLen),
     Rep("A", AddrLen),
     Prefix0x \o Rep("a", AddrLen),
     Prefix0x \o Rep("A", AddrLen),
     <<"0", "X">> \o Rep("A", AddrLen),
     Prefix0x \o Rep("b", AddrLen),
     Rep("B", AddrLen)}

MatchIdentities ==
    {AddrA,
     AddrB,
     Prefix0x \o Rep("a", AddrLen),
     Rep("a", AddrLen),
     Rep("A", AddrLen),
     Rep("b", AddrLen),
     <<"0", "X">> \o Rep("B", AddrLen),
     DerivationError}

InitMatch ==
    /\ engine \in {"hybrid", "bip39"}
    /\ env \in [MNEMONIC : {ValidMnemonic}, WORDS : {<<"a">>},
                TARGET_ADDRESS : MatchTargets]
    /\ pc = "MatchInit"
    /\ components = <<>>
    /\ target_address = EmptyStr
    /\ gen = <<>>
    /\ yielded = <<>>
    /\ attempt = 0
    /\ total_combinations = 0
    /\ passphrase = EmptyStr
    /\ results = <<>>
    /\ outcome = NoOutcome
    /\ evaluated = <<>>
    /\ callCount = <<>>
    /\ matchedAt = {}
    /\ cancelRequested = FALSE
    /\ cancelAttempt = 0
    /\ externalCalls = {}
    /\ report = NoReport
    /\ master_secret = <<>>
    /\ secret_output = <<>>
    /\ SideInit

\* The normalisation of the target entry, as main (the hybrid script) and
\* brute_force_bip39_passphrase do it before the search.
NormalizeStep ==
    /\ pc = "MatchInit"
    /\ target_address' = NormalizeTarget(engine, Strip(env.TARGET_ADDRESS))
    /\ pc' = "MatchNormalized"
    /\ UNCHANGED <<engine, env, components, gen, yielded, attempt,
                   total_combinations, passphrase, results, outcome, evaluated,
                   callCount, matchedAt, cancelRequested, cancelAttempt,
                   externalCalls, report>>
    /\ UNCHANGED <<secretVars, sideVars>>

\* The comparison of one derived identity with the normalised target.
CompareStep ==
    /\ pc = "MatchNormalized"
    /\ \E address \in MatchIdentities :
          results' = <<MethodResult(engine, 1, address, target_address)>>
    /\ pc' = "MatchDone"
    /\ UNCHANGED <<engine, env, components, target_address, gen, yielded,
                   attempt, total_combinations, passphrase, outcome, evaluated,
                   callCount, matchedAt, cancelRequested, cancelAttempt,
                   externalCalls, report>>
    /\ UNCHANGED <<secretVars, sideVars>>

NextMatch ==
    \/ NormalizeStep
    \/ CompareStep

SpecMatch == InitMatch /\ [][NextMatch]_vars

\* ------------------------------------- the rendering of the master secret

\* The lengths, in bytes, of the master secret slip39.recover returns.
SecretLengths == {16, 32}

\* The master secrets: for each length, byte sequences that differ in
\* every byte.
SecretValues ==
    {[i \in 1..n |-> (seed * 16 + i) % 256] :
        n \in SecretLengths, seed \in 0..MaxSecretSeed}

HexChars ==
    <<"0", "1", "2", "3", "4", "5", "6", "7", "8", "9", "a", "b", "c", "d", "e", "f">>

\* bytes.hex()
BytesHex(bytes) ==
    Flatten([i \in 1..Len(bytes) |->
                <<HexChars[(bytes[i] \div 16) + 1], HexChars[(bytes[i] % 16) + 1]>>])

\* The number of hex digits of the secret the hybrid script prints.
HexShown == 32

\* s[:n]
SliceTo(str, n) == SubSeq(str, 1, IF Len(str) < n THEN Len(str) ELSE n)

\* What a run prints of its master secret: the hybrid script prints
\* master_secret.hex()[:32] after the recovery, main.py prints secret.hex()
\* after a match.
SecretRendering(e, secret) ==
    IF e = "hybrid" THEN SliceTo(BytesHex(secret), HexShown) ELSE BytesHex(secret)

InitSecret ==
    /\ engine \in {"hybrid", "slip39"}
    /\ env \in [MNEMONIC : {ValidMnemonic}, WORDS : {<<"a">>},
                TARGET_ADDRESS : {Prefix0x \o Rep("a", AddrLen)}]
    /\ pc = "SecretInit"
    /\ components = <<>>
    /\ target_address = EmptyStr
    /\ gen = <<>>
    /\ yielded = <<>>
    /\ attempt = 0
    /\ total_combinations = 0
    /\ passphrase = EmptyStr
    /\ results = <<>>
    /\ outcome = NoOutcome
    /\ evaluated = <<>>
    /\ callCount = <<>>
    /\ matchedAt = {}
    /\ cancelRequested = FALSE
    /\ cancelAttempt = 0
    /\ externalCalls = {}
    /\ report = NoReport
    /\ master_secret = <<>>
    /\ secret_output = <<>>
    /\ SideInit

\* slip39.recover returns the master secret.
RecoverStep ==
    /\ pc = "SecretInit"
    /\ master_secret' \in SecretValues
    /\ pc' = "SecretRecovered"
    /\ UNCHANGED <<engine, env, components, target_address, gen, yielded,
                   attempt, total_combinations, passphrase, results, outcome,
                   evaluated, callCount, matchedAt, cancelRequested,
                   cancelAttempt, externalCalls, report, secret_output>>
    /\ UNCHANGED sideVars

\* The print of the secret.
PrintSecret ==
    /\ pc = "SecretRecovered"
    /\ secret_output' = SecretRendering(engine, master_secret)
    /\ pc' = "SecretPrinted"
    /\ UNCHANGED <<engine, env, components, target_address, gen, yielded,
                   attempt, total_combinations, passphrase, results, outcome,
                   evaluated, callCount, matchedAt, cancelRequested,
                   cancelAttempt, externalCalls, report, master_secret>>
    /\ UNCHANGED sideVars

NextSecret ==
    \/ RecoverStep
    \/ PrintSecret

SpecSecret == InitSecret /\ [][NextSecret]_vars

\* The search itself at rest, for what is looked at on its own: script e at
\* place p of its code, nothing of the search done.
SearchAtRest(e, p) ==
    /\ engine = e
    /\ env = [MNEMONIC |-> ValidMnemonic, WORDS |-> <<"a">>,
              TARGET_ADDRESS |-> Prefix0x \o Rep("a", AddrLen)]
    /\ pc = p
    /\ components = <<>>
    /\ target_address = EmptyStr
    /\ gen = <<>>
    /\ yielded = <<>>
    /\ attempt = 0
    /\ total_combinations = 0
    /\ passphrase = EmptyStr
    /\ results = <<>>
    /\ outcome = NoOutcome
    /\ evaluated = <<>>
    /\ callCount = <<>>
    /\ matchedAt = {}
    /\ cancelRequested = FALSE
    /\ cancelAttempt = 0
    /\ externalCalls = {}
    /\ report = NoReport
    /\ master_secret = <<>>
    /\ secret_output = <<>>

\* The variables of the search.
searchVars ==
    <<engine, env, pc, components, target_address, gen, yielded, attempt,
      total_combinations, passphrase, results, outcome, evaluated, callCount,
      matchedAt, cancelRequested, cancelAttempt, externalCalls, report>>

\* ------------------------------------- a derivation strategy, on its own

\* str(n) of a natural number, as in an f-string.
RECURSIVE DecimalStr(_)
DecimalStr(n) ==
    IF n < 10 THEN <<HexChars[n + 1]>>
    ELSE DecimalStr(n \div 10) \o <<HexChars[(n % 10) + 1]>>

\* A call that returns v, and a call that raises e.
Returned(v) == [raised |-> FALSE, value |-> v]

Raised(e) == [raised |-> TRUE, value |-> e]

\* The library calls of the strategies. Each is a function of its arguments:
\* its value is written as the term of the call. slip39.recover raises for
\* shares it does not accept; slip39.account and Account.from_key raise for
\* the key material the library rejects.
slip39_recover(mnemonic, pass, using_bip39) ==
    IF ~MnemonicAccepted(mnemonic)
    THEN Raised(<<"MnemonicError">>)
    ELSE Returned(<<"recover(", mnemonic, ",">> \o pass
                  \o <<",", IF using_bip39 THEN "bip39" ELSE "slip39", ")">>)

slip39_account(secret, path) ==
    IF secret \in lib_rejects
    THEN Raised(<<"KeyError">>)
    ELSE Returned(<<"account(">> \o secret \o <<",">> \o path \o <<")">>)

pbkdf2_hmac(seed, salt) == <<"pbkdf2(">> \o seed \o <<",">> \o salt \o <<")">>

\* final_seed[:32]
First32(seed) == <<"[:32](">> \o seed \o <<")">>

Account_from_key(key) ==
    IF key \in lib_rejects
    THEN Raised(<<"InvalidKey">>)
    ELSE Returned(<<"address_of(">> \o key \o <<")">>)

\* Mutant: the account of the path moves with the number of calls made.
AccountPath_CountsCalls(account_index) ==
    <<"m/44'/60'/0'/0/">> \o DecimalStr(account_index + derive_calls)

\* f"m/44'/60'/0'/0/{account_index}"
AccountPath(account_index) == <<"m/44'/60'/0'/0/">> \o DecimalStr(account_index)

\* except Exception as e: raise ValueError(f"Error generating address
\* ({label}): {e}")
WrapError(label, r) ==
    IF r.raised
    THEN Raised(<<"ValueError: Error generating address (", label, "): ">>
                \o r.value)
    ELSE r

\* slip39_seed_to_eth_address: the four methods, and the ValueError for any
\* other method.
slip39_seed_to_eth_address(mnemonic, pass, account_index, method) ==
    CASE method = "keystone" ->
            LET rec == slip39_recover(mnemonic,
                           IF IsTruthy(pass) THEN pass ELSE EmptyStr, FALSE)
            IN  WrapError("Keystone method",
                    IF rec.raised THEN rec
                    ELSE slip39_account(rec.value, AccountPath(account_index)))
      [] method = "trezor_bip39" ->
            LET rec == slip39_recover(mnemonic,
                           IF IsTruthy(pass) THEN pass ELSE EmptyStr, TRUE)
            IN  WrapError("Trezor BIP-39 method",
                    IF rec.raised THEN rec
                    ELSE slip39_account(rec.value, AccountPath(account_index)))
      [] method = "manual_bip39" ->
            LET entropy_as_seed == slip39_recover(mnemonic, EmptyStr, TRUE)
                final_seed == IF IsTruthy(pass)
                              THEN pbkdf2_hmac(entropy_as_seed.value, pass)
                              ELSE entropy_as_seed.value
            IN  WrapError("Manual BIP-39 method",
                    IF entropy_as_seed.raised THEN entropy_as_seed
                    ELSE Account_from_key(First32(final_seed)))
      [] method = "trezor_pure" ->
            LET base_seed == slip39_recover(mnemonic, EmptyStr, TRUE)
                final_seed == IF IsTruthy(pass)
                              THEN pbkdf2_hmac(base_seed.value,
                                               <<"mnemonic">> \o pass)
                              ELSE base_seed.value
            IN  WrapError("Pure Trezor method",
                    IF base_seed.raised THEN base_seed
                    ELSE Account_from_key(First32(final_seed)))
      [] OTHER -> Raised(<<"ValueError: Unknown method: ", method>>)

\* The arguments of the calls: shares the library accepts or not, the empty
\* and a non-empty passphrase, two account indices, the four registered
\* methods and an id that is not registered.
DeriveMnemonics == {ValidMnemonic, "invalid"}

DerivePassphrases == {EmptyStr, <<"a">>}

DeriveIndices == {0, 1}

UnknownMethod == "ledger"

DeriveMethodIds == {Methods("hybrid")[m] : m \in MethodIds("hybrid")} \cup {UnknownMethod}

DeriveArgs ==
    {<<m, p, a, id>> : m \in DeriveMnemonics, p \in DerivePassphrases,
                       a \in DeriveIndices, id \in DeriveMethodIds}

\* The key material the calls hand to slip39.account and Account.from_key.
KeyMaterials ==
    {slip39_recover(ValidMnemonic, p, b).value :
        p \in DerivePassphrases, b \in BOOLEAN}
    \cup {First32(slip39_recover(ValidMnemonic, EmptyStr, TRUE).value)}
    \cup {First32(pbkdf2_hmac(slip39_recover(ValidMnemonic, EmptyStr, TRUE).value, salt)) :
            salt \in {<<"a">>, <<"mnemonic", "a">>}}

\* What the library rejects is the same for a whole run: nothing, or one
\* key material.
InitDerive ==
    /\ SearchAtRest("hybrid", "Deriving")
    /\ lib_rejects \in {{}} \cup {{k} : k \in KeyMaterials}
    /\ derive_calls = 0
    /\ kept_call = NoCall
    /\ last_call = NoCall
    /\ ProgressAtRest
    /\ SharesAtRest
    /\ RpcAtRest

\* One call of a strategy, with any arguments; the call may be kept to be
\* compared with later ones.
CallStrategy ==
    /\ pc = "Deriving"
    /\ derive_calls < MaxDeriveCalls
    /\ \E args \in DeriveArgs, keep \in BOOLEAN :
          LET call == [made |-> TRUE, number |-> derive_calls + 1, args |-> args,
                       result |-> slip39_seed_to_eth_address(
                                      args[1], args[2], args[3], args[4])]
          IN  /\ last_call' = call
              /\ kept_call' = IF keep THEN call ELSE kept_call
    /\ derive_calls' = derive_calls + 1
    /\ UNCHANGED lib_rejects
    /\ UNCHANGED <<searchVars, secretVars, progressVars, shareVars, rpcVars>>

NextDerive == CallStrategy

SpecDerive == InitDerive /\ [][NextDerive]_vars

\* ---------------------------- the progress reports of the hybrid script

\* The numbers of the reporting policy of main.
FirstAttempts == 5

CoarseInterval == 100

FineInterval == 10

SmallTotal == 1000

ReportSeconds == 30

MemoryShownAfter == 100

HighWaterMb == 1000

\* The number of yields of generate_passphrase_combinations for each number
\* of components, computed once.
YieldCount ==
    [n \in 0..MaxProgressComponents |-> 1 + Len(NestedLoops(n))]

\* What an iteration of the loop can take, in seconds.
Ticks == {0, 15, 30}

\* What get_memory_usage can return: no figure ("N/A"), or the resident set
\* size in MB.
MemorySamples ==
    {[sampled |-> TRUE, available |-> FALSE, rss_mb |-> 0]}
    \cup {[sampled |-> TRUE, available |-> TRUE, rss_mb |-> mb] :
            mb \in {500, HighWaterMb, 1500}}

\* Mutant: no report for the time that has passed.
ShowProgress_NoClock(a, found, total, now, last) ==
    \/ a <= FirstAttempts
    \/ found
    \/ a % CoarseInterval = 0
    \/ (a % FineInterval = 0 /\ total <= SmallTotal)

\* Mutant: the fine interval for the large totals.
AttemptTrigger_FineForLarge(a, total) ==
    \/ a % CoarseInterval = 0
    \/ (a % FineInterval = 0 /\ total > SmallTotal)

\* attempt % 100 == 0 or (attempt % 10 == 0 and total_combinations <= 1000)
AttemptTrigger(a, total) ==
    \/ a % CoarseInterval = 0
    \/ (a % FineInterval = 0 /\ total <= SmallTotal)

\* show_progress of main.
ShowProgress(a, found, total, now, last) ==
    \/ a <= FirstAttempts
    \/ found
    \/ AttemptTrigger(a, total)
    \/ now - last >= ReportSeconds

\* if attempt > 100 and memory_usage["rss_mb"] != "N/A": ... if
\* memory_usage["rss_mb"] > 1000: gc.collect()
RunsGc(a, sample) ==
    a > MemoryShownAfter /\ sample.available /\ sample.rss_mb > HighWaterMb

InitProgress ==
    /\ SearchAtRest("hybrid", "Counting")
    /\ DeriveAtRest
    /\ ProgressAtRest
    /\ SharesAtRest
    /\ RpcAtRest

\* main, from the count of the total to the head of the loop: the total of
\* the components of the run, the counter at zero, the clock read, the
\* generator created.
CountTotal ==
    /\ pc = "Counting"
    /\ \E n \in 0..MaxProgressComponents :
          /\ components' = DistinctWords(n)
          /\ total_combinations' = count_total_combinations(n)
          /\ yields_left' = YieldCount[n]
    /\ attempt' = 0
    /\ last_progress_time' = current_time
    /\ pc' = "Looping"
    /\ UNCHANGED <<engine, env, target_address, gen, yielded, passphrase,
                   results, outcome, evaluated, callCount, matchedAt,
                   cancelRequested, cancelAttempt, externalCalls, report>>
    /\ UNCHANGED <<current_time, match_found, show_progress, memory_usage,
                   gc_collected>>
    /\ UNCHANGED <<secretVars, deriveVars, shareVars, rpcVars>>

\* The first yield of the generator is "": the loop skips it.
SkipEmpty ==
    /\ pc = "Looping"
    /\ yields_left = YieldCount[Len(components)]
    /\ yields_left' = yields_left - 1
    /\ UNCHANGED <<searchVars, secretVars, deriveVars, shareVars, rpcVars>>
    /\ UNCHANGED <<current_time, last_progress_time, match_found,
                   show_progress, memory_usage, gc_collected>>

\* One iteration of the loop for a candidate: the counter, the clock, the
\* evaluation (it matches or not), the decision to report, and in a report
\* the memory sample, the collection and the time of the report; a match
\* ends the run.
Attempt ==
    /\ pc = "Looping"
    /\ yields_left > 0
    /\ yields_left < YieldCount[Len(components)]
    /\ \E tick \in Ticks, found \in BOOLEAN, sample \in MemorySamples :
          LET a    == NextAttempt(attempt)
              now  == current_time + tick
              show == ShowProgress(a, found, total_combinations, now,
                                   last_progress_time)
          IN  /\ now <= MaxClock
              /\ attempt' = a
              /\ current_time' = now
              /\ match_found' = found
              /\ show_progress' = show
              /\ memory_usage' = IF show THEN sample ELSE NotSampled
              /\ gc_collected' = (show /\ RunsGc(a, sample))
              /\ last_progress_time' = IF show THEN now ELSE last_progress_time
              /\ IF found
                 THEN Terminate("Found", EmptyStr, NoMethod, EmptyStr, a)
                 ELSE UNCHANGED <<pc, outcome>>
    /\ yields_left' = yields_left - 1
    /\ UNCHANGED <<engine, env, components, target_address, gen, yielded,
                   total_combinations, passphrase, results, evaluated,
                   callCount, matchedAt, cancelRequested, cancelAttempt,
                   externalCalls, report>>
    /\ UNCHANGED <<secretVars, deriveVars, shareVars, rpcVars>>

\* The generator is exhausted.
ExhaustProgress ==
    /\ pc = "Looping"
    /\ yields_left = 0
    /\ Terminate("Exhausted", EmptyStr, NoMethod, EmptyStr, attempt)
    /\ UNCHANGED <<engine, env, components, target_address, gen, yielded,
                   attempt, total_combinations, passphrase, results, evaluated,
                   callCount, matchedAt, cancelRequested, cancelAttempt,
                   externalCalls, report>>
    /\ UNCHANGED <<secretVars, sideVars>>

NextProgress ==
    \/ CountTotal
    \/ SkipEmpty
    \/ Attempt
    \/ ExhaustProgress

SpecProgress == InitProgress /\ [][NextProgress]_vars

\* ------------------------------------- the parse of the shares (main.py)

\* A line of at least this many words is taken to hold several shares.
MultiShareWords == 40

\* The numbers of words of a complete share.
ShareLengths == {20, 33}

\* The loop over the words of a line of several shares: share_words grows
\* word by word and is closed as soon as it has 20 or 33 words, and at the
\* last word; the next share starts empty.
RECURSIVE ChunkShares(_)
ChunkShares(words) ==
    IF words = <<>> THEN <<>>
    ELSE LET closes(n) == n \in ShareLengths \/ n = Len(words)
             n == CHOOSE m \in 1..Len(words) :
                      closes(m) /\ \A j \in 1..(m - 1) : ~closes(j)
         IN  <<JoinStr(<<" ">>, SubSeq(words, 1, n))>>
             \o ChunkShares(SubSeq(words, n + 1, Len(words)))

\* The shares of one stripped line.
SharesOfLine(line) ==
    IF line = EmptyStr THEN <<>>
    ELSE LET words == SplitWhitespace(line, <<>>)
         IN  IF Len(words) >= MultiShareWords
             THEN ChunkShares(words)
             ELSE <<line>>

\* parse_mnemonic_shares
parse_mnemonic_shares(mnemonic) ==
    IF mnemonic = EmptyStr THEN <<>>
    ELSE LET lines == SplitOn(Strip(mnemonic), "\n", <<>>)
         IN  Flatten([l \in 1..Len(lines) |-> SharesOfLine(Strip(lines[l]))])

\* A line of w words, the i-th word the numeral of i.
ShareLine(w, sep) == JoinStr(sep, [i \in 1..w |-> DecimalStr(i)])

\* The mnemonic strings parsed: one line, with one or two spaces between
\* its words, alone or followed by a newline.
ShareInputs ==
    {ShareLine(w, sep) \o post :
        w \in 1..MaxShareWords, sep \in {<<" ">>, <<" ", " ">>},
        post \in {EmptyStr, <<"\n">>}}

InitShares ==
    /\ SearchAtRest("slip39", "SharesGiven")
    /\ DeriveAtRest
    /\ ProgressAtRest
    /\ share_input \in ShareInputs
    /\ shares = <<>>
    /\ RpcAtRest

\* try_recover_slip39 parses the mnemonic.
ParseShares ==
    /\ pc = "SharesGiven"
    /\ shares' = parse_mnemonic_shares(share_input)
    /\ pc' = "SharesParsed"
    /\ UNCHANGED <<engine, env, components, target_address, gen, yielded,
                   attempt, total_combinations, passphrase, results, outcome,
                   evaluated, callCount, matchedAt, cancelRequested,
                   cancelAttempt, externalCalls, report>>
    /\ UNCHANGED <<secretVars, deriveVars, progressVars, share_input, rpcVars>>

NextShares == ParseShares

SpecShares == InitShares /\ [][NextShares]_vars

\* ------------------------------------------------- the balance checker alone
\* balance_checker.py: one EthereumRPCChecker, called any number of times
\* through _make_rpc_call and get_multiple_balances. The node and the
\* transport are the environment: every post either raises a connection
\* error, gets an HTTP error status, or gets a JSON body.

\* The most requests one checker builds.
MaxRequests == 3

\* Optional[str]
NoneStr == [none |-> TRUE, str |-> <<>>]

Str(s) == [none |-> FALSE, str |-> s]

\* Optional[float]: a balance in ETH is written by its amount in wei, of which
\* it is the 10**18-th part.
NoBalance == [none |-> TRUE, wei |-> 0]

Balance(wei) == [none |-> FALSE, wei |-> wei]

\* The value of a string of hex digits.
RECURSIVE HexValue(_)
HexValue(d) ==
    IF d = <<>>
    THEN 0
    ELSE 16 * HexValue(SubSeq(d, 1, Len(d) - 1))
         + ((CHOOSE k \in 1..16 : HexChars[k] = LowerChar(d[Len(d)])) - 1)

\* int(s, 16): the prefix 0x is optional, no digit or a character that is no
\* hex digit raises ValueError.
IntBase16(s) ==
    LET d == IF StartsWith(Lower(s), <<"0", "x">>) THEN SubSeq(s, 3, Len(s)) ELSE s
    IN  IF d # <<>> /\ \A i \in 1..Len(d) : d[i] \in HexDigits
        THEN Returned(HexValue(d))
        ELSE Raised("ValueError")

\* The addresses looked up, with and without the prefix 0x.
RpcAddresses == {<<"0", "x", "a">>, <<"b">>}

\* The address as the request carries it.
With0x(address) ==
    IF StartsWith(address, <<"0", "x">>) THEN address ELSE <<"0", "x">> \o address

\* The balance of the node for an address, in wei, as eth_getBalance gives it.
NodeWei(address) ==
    IF With0x(address) = <<"0", "x", "a">> THEN <<"0", "x", "2", "a">>
    ELSE <<"0", "x", "0">>

\* The response objects a node can give to the request with this id for this
\* address: the balance, an error, a null result, a result that is no number.
Answers(id, address) ==
    {[id |-> id, error |-> FALSE, result |-> Str(NodeWei(With0x(address)))],
     [id |-> id, error |-> TRUE, result |-> NoneStr],
     [id |-> id, error |-> FALSE, result |-> NoneStr],
     [id |-> id, error |-> FALSE, result |-> Str(<<"0", "x">>)]}

\* The bodies a node can give to a batch: response objects for some of the
\* requests, each request answered at most once, in any order.
BatchBodies(ids, addresses) ==
    LET n == Len(addresses)
        all == UNION {Answers(ids[i], addresses[i]) : i \in 1..n}
    IN  {b \in UNION {[1..m -> all] : m \in 0..n} :
            \A i \in 1..Len(b), j \in 1..Len(b) : i # j => b[i].id # b[j].id}

\* A post that raises a connection error or a timeout, and one that gets an
\* HTTP error status, for which raise_for_status raises HTTPError.
ConnectionFailed == [kind |-> "exception", body |-> <<>>]

ErrorStatus == [kind |-> "status", body |-> <<>>]

\* What n posts in a row can bring: the posts after the first JSON body, which
\* no call makes, are left as connection errors.
Transports(n, bodies) ==
    UNION {{[i \in 1..n |->
                IF i <= k THEN f[i]
                ELSE IF i = k + 1 THEN [kind |-> "json", body |-> b]
                ELSE ConnectionFailed] :
            f \in [1..k -> {ConnectionFailed, ErrorStatus}], b \in bodies} :
          k \in 0..n}
    \cup [1..n -> {ConnectionFailed, ErrorStatus}]

\* for attempt in range(n): post; a JSON body ends the loop, a
\* RequestException ends it at the last attempt and is retried before.
RECURSIVE RetryLoop(_, _, _)
RetryLoop(attempt_no, n, outs) ==
    IF attempt_no >= n
    THEN [posts |-> attempt_no, how |-> "fell_through", body |-> <<>>]
    ELSE IF outs[attempt_no + 1].kind = "json"
    THEN [posts |-> attempt_no + 1, how |-> "json", body |-> outs[attempt_no + 1].body]
    ELSE IF attempt_no = n - 1
    THEN [posts |-> attempt_no + 1, how |-> "gave_up", body |-> <<>>]
    ELSE RetryLoop(attempt_no + 1, n, outs)

\* request_count += 1, whatever the number of requests built.
NextRequestCount_ByOne(count, n) == count + 1

\* request_count += n
NextRequestCount(count, n) == count + n

\* _make_rpc_call: the record of the call, with the value it returns.
make_rpc_call(address, outs) ==
    LET id == request_count
        loop == RetryLoop(0, max_retries, outs)
        data == loop.body[1]
    IN  [kind |-> "single", addresses |-> <<address>>, ids |-> <<id>>,
         sent |-> [k \in 1..loop.posts |-> <<id>>],
         outcomes |-> [k \in 1..loop.posts |-> outs[k].kind],
         how |-> loop.how, body |-> loop.body,
         value |-> IF loop.how # "json" THEN NoneStr
                   ELSE IF data.error THEN NoneStr
                   ELSE data.result,
         results |-> <<>>]

\* The entry get_multiple_balances stores for a response object: None for an
\* error, for a result that is null or empty, and for one int() rejects.
BalanceOf(result) ==
    LET balance_wei == result.result
        parsed == IntBase16(balance_wei.str)
    IN  IF result.error THEN NoBalance
        ELSE IF balance_wei.none \/ balance_wei.str = <<>> THEN NoBalance
        ELSE IF parsed.raised THEN NoBalance
        ELSE Balance(parsed.value)

\* The dictionary get_multiple_balances fills from a body: the i-th response
\* object gives the entry of the i-th address. A body that is one object is
\* the list of that object.
RECURSIVE FillResults(_, _, _, _)
FillResults(results_, i, batch_results, addresses) ==
    IF i > Len(batch_results) \/ i > Len(addresses)
    THEN results_
    ELSE LET address == addresses[i]
             entry == BalanceOf(batch_results[i])
             next == [a \in DOMAIN results_ \cup {address} |->
                         IF a = address THEN entry ELSE results_[a]]
         IN  FillResults(next, i + 1, batch_results, addresses)

\* get_multiple_balances for a list that is not empty: the record of the
\* call, with the dictionary it returns.
get_multiple_balances(addresses, outs) ==
    LET ids == [i \in 1..Len(addresses) |-> request_count + (i - 1)]
        loop == RetryLoop(0, max_retries, outs)
    IN  [kind |-> "batch", addresses |-> addresses, ids |-> ids,
         sent |-> [k \in 1..loop.posts |-> ids],
         outcomes |-> [k \in 1..loop.posts |-> outs[k].kind],
         how |-> loop.how, body |-> loop.body,
         value |-> NoneStr,
         results |-> IF loop.how = "json"
                     THEN FillResults(<<>>, 1, loop.body, addresses)
                     ELSE IF loop.how = "gave_up"
                     THEN [a \in {addresses[i] : i \in 1..Len(addresses)} |-> NoBalance]
                     ELSE <<>>]

\* The values of max_retries the checker is constructed with: no attempt, one
\* attempt, one attempt and one retry.
RetryChoices == {0, 1, 2}

\* The lists of addresses passed to get_multiple_balances.
BatchInputs ==
    UNION {[1..m -> RpcAddresses] : m \in 0..Cardinality(RpcAddresses)}

InitRpc ==
    /\ SearchAtRest("hybrid", "Checking")
    /\ DeriveAtRest
    /\ ProgressAtRest
    /\ SharesAtRest
    /\ max_retries \in RetryChoices
    /\ request_count = 0
    /\ issued = <<>>
    /\ last_rpc = NoRpc

\* One call of _make_rpc_call("eth_getBalance", [address, "latest"]).
MakeRpcCall ==
    /\ pc = "Checking"
    /\ request_count + 1 <= MaxRequests
    /\ \E address \in RpcAddresses :
          \E outs \in Transports(max_retries, {<<a>> : a \in Answers(request_count, address)}) :
              /\ last_rpc' = make_rpc_call(With0x(address), outs)
              /\ issued' = Append(issued, request_count)
              /\ request_count' = NextRequestCount(request_count, 1)
    /\ UNCHANGED <<searchVars, secretVars, deriveVars, progressVars, shareVars,
                   max_retries>>

\* One call of get_multiple_balances.
GetMultipleBalances ==
    /\ pc = "Checking"
    /\ \E addresses \in BatchInputs :
          /\ request_count + Len(addresses) <= MaxRequests
          /\ IF addresses = <<>>
             THEN /\ last_rpc' = [NoRpc EXCEPT !.kind = "batch", !.how = "empty"]
                  /\ UNCHANGED <<issued, request_count>>
             ELSE LET ids == [i \in 1..Len(addresses) |-> request_count + (i - 1)]
                  IN  \E outs \in Transports(max_retries, BatchBodies(ids, addresses)) :
                          /\ last_rpc' = get_multiple_balances(addresses, outs)
                          /\ issued' = issued \o ids
                          /\ request_count' =
                                 NextRequestCount(request_count, Len(addresses))
    /\ UNCHANGED <<searchVars, secretVars, deriveVars, progressVars, shareVars,
                   max_retries>>

NextRpc ==
    \/ MakeRpcCall
    \/ GetMultipleBalances

SpecRpc == InitRpc /\ [][NextRpc]_vars

\* ------------------------------------------------------------------ claims

NumMethods == Len(Methods(engine))

Terminated(kind) == pc = "Terminated" /\ outcome.kind = kind

\* Sum over L = 1..n of C(n, L) * L!
CountLaw(n) ==
    LET term == [L \in 1..n |-> Comb(n, L) * Factorial(L)]
    IN  SumTo(term, n)

\* The strings of the yields made so far.
YieldedStrings == [i \in DOMAIN yielded |-> Candidate(engine, components, yielded[i])]

\* The generation order for each number of components.
GenerationOrder == [n \in 0..MaxComponents |-> PermutationYields(n)]

\* The empty passphrase, then the candidates in generation order.
AllPassphrases ==
    LET ys == GenerationOrder[Len(components)]
    IN  <<EmptyStr>> \o [i \in DOMAIN ys |-> Candidate(engine, components, ys[i])]

IsPrefix(a, b) == Len(a) <= Len(b) /\ SubSeq(b, 1, Len(a)) = a

\* C1: when the generator is exhausted it has yielded exactly
\* Sum_{L=1..n} C(n,L)*L! strings (none for n = 0, one for n = 1, 15 for
\* n = 3), and the empty passphrase is not among them.
C1_GeneratorCountLaw ==
    Terminated("Exhausted") =>
        /\ Len(yielded) = CountLaw(Len(components))
        /\ \A i \in DOMAIN yielded : YieldedStrings[i] # EmptyStr

\* C2: the search ends in Found if and only if some passphrase among the
\* empty one and the candidates matches under some method; the passphrases
\* are evaluated in generation order, the empty one first, nothing is
\* evaluated after a match, the candidate reported is the one that matched,
\* and Exhausted is reached only after every passphrase was evaluated and
\* none matched.
C2_FoundIffFirstMatch ==
    /\ Len(evaluated) <= 1 + Len(GenerationOrder[Len(components)])
    /\ \A i \in DOMAIN evaluated :
          evaluated[i] =
              IF i = 1 THEN EmptyStr
              ELSE Candidate(engine, components,
                             GenerationOrder[Len(components)][i - 1])
    /\ \A i \in matchedAt : i = Len(evaluated)
    /\ pc = "Enumerating" => matchedAt = {}
    /\ Terminated("Found") =>
          /\ matchedAt = {Len(evaluated)}
          /\ outcome.candidate = evaluated[Len(evaluated)]
          /\ outcome.method \in DOMAIN results
          /\ results[outcome.method].matches
    /\ Terminated("Exhausted") =>
          /\ matchedAt = {}
          /\ evaluated = AllPassphrases
    /\ (pc = "Terminated" /\ matchedAt # {}) => outcome.kind = "Found"

C2_Witness ==
    /\ Terminated("Found")
    /\ engine = "hybrid"
    /\ outcome.attempts >= 2
    /\ outcome.method >= 2

\* The increasing tuple of the positions a yield uses: its subset.
RECURSIVE SortedTuple(_)
SortedTuple(S) ==
    IF S = {} THEN <<>>
    ELSE LET m == CHOOSE x \in S : \A y \in S : x <= y
         IN  <<m>> \o SortedTuple(S \ {m})

SubsetOf(perm) == SortedTuple({perm[i] : i \in DOMAIN perm})

\* Lexicographic order of two tuples of the same length.
LexLess(a, b) ==
    \E k \in DOMAIN a : a[k] < b[k] /\ \A j \in 1..(k - 1) : a[j] = b[j]

\* The order of the claim: by length, then by subset, then by ordering.
Before(p, q) ==
    \/ Len(p) < Len(q)
    \/ /\ Len(p) = Len(q)
       /\ \/ LexLess(SubsetOf(p), SubsetOf(q))
          \/ SubsetOf(p) = SubsetOf(q) /\ LexLess(p, q)

\* C3: the yields come in one fixed order: the generator only appends to
\* what it has yielded; every yield is an ordering of a subset of the
\* component positions; shorter ones come before longer ones, within a
\* length the subsets come in lexicographic order of their increasing
\* position tuples, within a subset the orderings come in lexicographic
\* order (each yield comes after the one before it in this order, which is
\* transitive); and an exhausted generator has yielded every such ordering,
\* so the sequence is determined by the ComponentSet alone.
C3_GenerationOrder ==
    /\ [][yielded' # yielded =>
            LET y == yielded'[Len(yielded')]
            IN  /\ yielded' = Append(yielded, y)
                /\ \A k \in DOMAIN y : y[k] \in 1..Len(components)
                /\ Cardinality({y[k] : k \in DOMAIN y}) = Len(y)
                /\ yielded # <<>> => Before(yielded[Len(yielded)], y)]_vars
    /\ [](Terminated("Exhausted") =>
            Cardinality({i \in DOMAIN yielded : yielded[i] # <<>>})
                = CountLaw(Len(components)))

C3_Witness ==
    /\ engine = "slip39"
    /\ Len(components) = 3
    /\ Len(yielded) = 15
    /\ yielded[5] = <<2, 1>>
    /\ yielded[6] = <<1, 3>>

\* C4: the empty passphrase is the first passphrase evaluated, it is
\* evaluated with every method before the generator is asked for its first
\* yield, it is never evaluated again, and the attempt counter counts the
\* non-empty yields only.
C4_EmptyFirstOnce ==
    /\ evaluated # <<>> => evaluated[1] = EmptyStr
    /\ \A i \in 2..Len(evaluated) : evaluated[i] # EmptyStr
    /\ (yielded # <<>> \/ gen # <<>>) =>
          /\ evaluated # <<>>
          /\ callCount[1] = NumMethods
    /\ attempt = Cardinality({i \in DOMAIN yielded : YieldedStrings[i] # EmptyStr})
    /\ pc = "TestingEmpty" => attempt = 0

C4_Witness ==
    /\ engine = "hybrid"
    /\ yielded # <<>>
    /\ yielded[1] = <<>>
    /\ Len(evaluated) = 3
    /\ attempt = 2

\* C5: the method of a Found outcome is the first, in registration order,
\* of the methods whose derived identity matches for that passphrase.
C5_FirstMethodWins ==
    Terminated("Found") =>
        /\ Len(results) = NumMethods
        /\ results[outcome.method].matches
        /\ outcome.address = results[outcome.method].address
        /\ \A j \in DOMAIN results : results[j].matches => outcome.method <= j

C5_Witness ==
    /\ Terminated("Found")
    /\ Cardinality({j \in DOMAIN results : results[j].matches}) >= 2
    /\ ~results[1].matches
    /\ outcome.method = 2

\* C6: an Exhausted outcome carries an attempt count equal to
\* Sum_{L=1..n} C(n,L)*L! (15 for three components): every candidate was
\* evaluated and the check of the empty passphrase is not counted.
C6_ExhaustedAttempts ==
    Terminated("Exhausted") =>
        /\ outcome.attempts = CountLaw(Len(components))
        /\ Len(evaluated) = outcome.attempts + 1
        /\ Len(components) = 3 => outcome.attempts = 15

C6_Witness ==
    /\ Terminated("Exhausted")
    /\ components = DistinctWords(3)
    /\ outcome.attempts = 15

\* C7: once cancellation is signalled after attempt k, no further candidate
\* is requested or evaluated and the run ends in Aborted with k attempts.
C7_CancelStopsSearch ==
    (cancelRequested /\ cancelAttempt >= 1) =>
        /\ attempt = cancelAttempt
        /\ pc = "Terminated" => (outcome.kind = "Aborted" /\ outcome.attempts = cancelAttempt)

\* C8: a derivation error never ends the run: the entry of the failing
\* method does not match, every method is still called for the passphrase,
\* and the passphrases after it are evaluated with every method again.
C8_DerivationErrorIsLocal ==
    /\ outcome.kind \in {"None", "InvalidConfiguration", "RecoveryError",
                         "Found", "Exhausted"}
    /\ \A j \in DOMAIN results : results[j].error => ~results[j].matches
    /\ \A i \in 1..(Len(callCount) - 1) : callCount[i] = NumMethods
    /\ (pc \in {"Enumerating", "Terminated"} /\ callCount # <<>>) =>
          callCount[Len(callCount)] = NumMethods
    /\ (pc = "Terminated" /\ \E j \in DOMAIN results : results[j].error) =>
          outcome.kind \in {"Found", "Exhausted"}

C8_Witness ==
    /\ engine = "hybrid"
    /\ pc = "Evaluating"
    /\ attempt = 2
    /\ Len(results) = 3
    /\ results[1].error
    /\ results[3].error

\* The configuration the claim calls invalid: no component after parsing,
\* or a target that is absent or not an address.
InvalidConfiguration ==
    \/ ParseWords(Strip(env.WORDS)) = <<>>
    \/ /\ engine # "slip39"
       /\ ~validate_ethereum_address(Strip(env.TARGET_ADDRESS))

\* C9: with an invalid configuration nothing is ever derived or compared,
\* and the run ends with InvalidConfiguration.
C9_InvalidConfigurationFailsFast ==
    InvalidConfiguration =>
        /\ evaluated = <<>>
        /\ pc = "Terminated" => outcome.kind = "InvalidConfiguration"

\* The normalisation of the claim: lower case, then the prefix if absent.
Normalized(id) ==
    LET l == Lower(id)
    IN  IF StartsWith(l, Prefix0x) THEN l ELSE Prefix0x \o l

YieldOfEvaluated(i) == IF engine = "hybrid" THEN yielded[i] ELSE yielded[i - 1]

\* The words of a yield, in its order.
WordsOf(perm) == [k \in DOMAIN perm |-> components[perm[k]]]

\* Concat mode: the words one after the other.
ConcatOf(words) == Flatten(words)

\* Space mode: exactly one space between two consecutive words.
RECURSIVE SpacedOf(_)
SpacedOf(words) ==
    IF words = <<>> THEN <<>>
    ELSE IF Len(words) = 1 THEN words[1]
    ELSE SpacedOf(SubSeq(words, 1, Len(words) - 1)) \o <<" ">> \o words[Len(words)]

\* C11: one join mode holds for all the candidates of a search: either every
\* candidate is its ordered words with no separator, or every candidate is
\* its ordered words with exactly one space between them; components [a, b]
\* give a, b, ab, ba in Concat mode and a, b, "a b", "b a" in Space mode.
C11_JoinMode ==
    /\ \/ \A i \in 2..Len(evaluated) :
              evaluated[i] = ConcatOf(WordsOf(YieldOfEvaluated(i)))
       \/ \A i \in 2..Len(evaluated) :
              evaluated[i] = SpacedOf(WordsOf(YieldOfEvaluated(i)))
    /\ (Terminated("Exhausted") /\ components = <<<<"a">>, <<"b">>>>) =>
          \/ evaluated = <<EmptyStr, <<"a">>, <<"b">>, <<"a", "b">>, <<"b", "a">>>>
          \/ evaluated = <<EmptyStr, <<"a">>, <<"b">>, <<"a", " ", "b">>, <<"b", " ", "a">>>>

C11_Witness ==
    /\ Terminated("Exhausted")
    /\ Len(components) = 3
    /\ evaluated[5] = <<"a", " ", "b">>
    /\ evaluated[16] = <<"c", " ", "b", " ", "a">>

\* C12: a Found outcome for a generated candidate carries the string of the
\* candidate that matched, the method that matched it, and an attempt number
\* equal to the 1-based position of the candidate in the generation order;
\* no earlier passphrase matched. For components [a, b] and the candidate
\* made of b then a, the attempt number is 4 (a, b, ab, ba).
C12_FoundCarriesOrdinal ==
    (Terminated("Found") /\ Len(evaluated) >= 2) =>
        /\ outcome.attempts = Len(evaluated) - 1
        /\ outcome.attempts + 1 \in DOMAIN AllPassphrases
        /\ outcome.candidate = AllPassphrases[outcome.attempts + 1]
        /\ outcome.method \in MethodIds(engine)
        /\ results[outcome.method].matches
        /\ matchedAt = {outcome.attempts + 1}
        /\ (components = <<<<"a">>, <<"b">>>>
              /\ outcome.candidate \in {<<"b", "a">>, <<"b", " ", "a">>}) =>
              outcome.attempts = 4

C12_Witness ==
    /\ Terminated("Found")
    /\ engine = "hybrid"
    /\ components = <<<<"a">>, <<"b">>>>
    /\ outcome.candidate = <<"b", "a">>
    /\ outcome.method = 1
    /\ outcome.attempts = 4

\* The (subset index tuple, permutation) pair of a yield.
PairOf(perm) == <<SubsetOf(perm), perm>>

\* C13: no two yields come from the same (subset index tuple, permutation)
\* pair; an exhausted generator has yielded every pair, and when two
\* components are textually identical the equal strings of different pairs
\* are all evaluated: components [a, a] give a, a, aa, aa.
C13_UniqueByPosition ==
    /\ Cardinality({PairOf(yielded[i]) : i \in DOMAIN yielded}) = Len(yielded)
    /\ Terminated("Exhausted") =>
          /\ Cardinality({PairOf(yielded[i]) : i \in DOMAIN yielded} \ {PairOf(<<>>)})
                 = CountLaw(Len(components))
          /\ Len(evaluated) = 1 + CountLaw(Len(components))
          /\ components = <<<<"a">>, <<"a">>>> =>
                \/ evaluated = <<EmptyStr, <<"a">>, <<"a">>, <<"a", "a">>, <<"a", "a">>>>
                \/ evaluated = <<EmptyStr, <<"a">>, <<"a">>, <<"a", " ", "a">>,
                                 <<"a", " ", "a">>>>

C13_Witness ==
    /\ Terminated("Exhausted")
    /\ components = <<<<"a">>, <<"b">>, <<"a">>>>
    /\ evaluated[2] = evaluated[4]
    /\ evaluated[7] = evaluated[8]
    /\ Len(evaluated) = 16

\* The controller state of a place of main: the configuration and the
\* recovery belong to Init, the evaluation of a candidate to Enumerating, and
\* the report of a match to Terminated.
ControllerState(p) ==
    CASE p \in {"Init", "Recovering"}         -> 0
      [] p = "TestingEmpty"                   -> 1
      [] p \in {"Enumerating", "Evaluating"}  -> 2
      [] OTHER                                -> 3

C15_FoundIsVerifiedAndNamed ==
    Terminated("Found") =>
        /\ matchedAt = {Len(evaluated)}
        /\ outcome.candidate = evaluated[Len(evaluated)]
        /\ results[outcome.method].matches
        /\ outcome.address = results[outcome.method].address
        /\ report.found
        /\ "candidate" \in report.names
        /\ report.candidate = outcome.candidate
        /\ NumMethods > 1 =>
              ("strategy" \in report.names /\ report.method = outcome.method)
        /\ HasAccountIndexOption(engine) => "account_index" \in report.names
        /\ "address" \in report.names => report.address = outcome.address

\* C16: no external call is made while a passphrase is evaluated: every
\* call of the secret recovery is made before the first evaluation, and
\* every balance lookup after a match was found.
C16_NoExternalCallInLoop ==
    /\ \A c \in externalCalls : c[2] \notin {"TestingEmpty", "Evaluating"}
    /\ \A c \in externalCalls :
          c[1] = "balance" => (c[2] = "Reporting" /\ outcome.kind = "Found")

\* Whether the secret recovery of the run fails: the library does not
\* accept the shares (the BIP-39 script recovers no secret).
RecoveryFails == engine # "bip39" /\ ~MnemonicAccepted(env.MNEMONIC)

\* C17: when the secret recovery fails the run stops with that failure
\* before the search: no passphrase is evaluated after the failed recovery
\* (the recovery of main.py is its evaluation of the empty passphrase), no
\* candidate is requested, and the run does not end in Found or Exhausted.
C17_RecoveryErrorStopsRun ==
    /\ outcome.kind = "RecoveryError" => (evaluated = <<>> /\ yielded = <<>>)
    /\ RecoveryFails =>
          /\ Len(evaluated) <= (IF engine = "slip39" THEN 1 ELSE 0)
          /\ yielded = <<>>
          /\ outcome.kind \notin {"Found", "Exhausted"}

\* C18: what a run prints of the recovered master secret, for a secret of
\* 16 and of 32 bytes, is shorter than the secret in full.
C18_SecretNeverPrintedInFull ==
    pc = "SecretPrinted" =>
        /\ Len(secret_output) < Len(BytesHex(master_secret))
        /\ secret_output # BytesHex(master_secret)

\* C19: passphrases are evaluated one at a time: the calls for a passphrase
\* are made with the methods in registration order, every passphrase
\* before the current one was evaluated with every method, and the next
\* candidate is requested, and its first derivation started, only after
\* every method was called for the current one and no match was decided.
C19_OneCandidateAtATime ==
    /\ [](/\ \A k \in DOMAIN results : results[k].name = Methods(engine)[k]
          /\ Len(results) <= NumMethods
          /\ Len(callCount) = Len(evaluated)
          /\ \A i \in 1..(Len(callCount) - 1) : callCount[i] = NumMethods
          /\ (results # <<>> /\ pc \in {"TestingEmpty", "Evaluating"}) =>
                callCount[Len(callCount)] = Len(results))
    /\ [][/\ yielded' # yielded =>
                /\ pc = "Enumerating"
                /\ callCount # <<>>
                /\ callCount[Len(callCount)] = NumMethods
                /\ FirstMatch(results) = NoMethod
          /\ evaluated' # evaluated =>
                /\ results = <<>>
                /\ callCount # <<>> => callCount[Len(callCount)] = NumMethods
                /\ matchedAt = {}]_vars

C19_Witness ==
    /\ engine = "hybrid"
    /\ pc = "Evaluating"
    /\ attempt = 2
    /\ callCount = <<4, 4, 2>>
    /\ results[2].name = "trezor_bip39"

\* C20: whatever the derivation calls return (a match, no match or an
\* error on any call), the run reaches a terminal outcome; the generator
\* only gets shorter once it is created, so no candidate is requested twice.
C20_Terminates ==
    /\ <>(pc = "Terminated")
    /\ [][gen' # gen => (pc = "TestingEmpty" \/ Len(gen') < Len(gen))]_vars
    /\ [][yielded' # yielded =>
            \A i \in DOMAIN yielded : yielded[i] # yielded'[Len(yielded')]]_vars

C20_Witness ==
    /\ pc = "Terminated"
    /\ outcome.kind = "Exhausted"
    /\ Len(components) = 3
    /\ \E j \in DOMAIN results : results[j].error
    /\ \E j \in DOMAIN results : ~results[j].error

EnumerationStarted == gen # <<>> \/ yielded # <<>> \/ pc \in {"Enumerating", "Evaluating"}

\* C22: when the enumeration starts the total has been computed, it is
\* Sum_{L=1..n} C(n,L)*L! for n components, its computation has listed no
\* combination, and the attempt counter equals it when the generator is
\* exhausted.
C22_TotalPrecomputed ==
    /\ EnumerationStarted =>
          /\ total_combinations = CountLaw(Len(components))
          /\ CombinationsListedForTotal(engine, Len(components)) = 0
    /\ Terminated("Exhausted") =>
          /\ attempt = total_combinations
          /\ outcome.attempts = total_combinations

\* The attempt interval of the claims: 10 for a total up to 1000, else 100.
ClaimedInterval(total) == IF total <= 1000 THEN 10 ELSE 100

\* C23: every one of the first five attempts is reported; a later attempt
\* that does not match is reported exactly when its number is a multiple of
\* the attempt interval or 30 seconds or more have passed since the last
\* report (a matching attempt is always reported); and the time of the last
\* report changes only in a report, to the time of that attempt.
C23_ProgressPolicy ==
    [][attempt' = attempt + 1 =>
          /\ attempt' <= 5 => show_progress'
          /\ match_found' => show_progress'
          /\ (attempt' > 5 /\ ~match_found') =>
                (show_progress' <=>
                    \/ attempt' % ClaimedInterval(total_combinations) = 0
                    \/ current_time' - last_progress_time >= 30)
          /\ last_progress_time' # last_progress_time => show_progress'
          /\ show_progress' => last_progress_time' = current_time'
          /\ ~show_progress' => last_progress_time' = last_progress_time]_vars

C23_Witness ==
    /\ attempt = 7
    /\ total_combinations > 1000
    /\ show_progress
    /\ ~match_found
    /\ current_time = 30
    /\ last_progress_time = 30

\* The total of each number of components, and the smallest attempt number
\* the attempt trigger of the policy fires at for that total: its interval.
TotalOfSize ==
    [n \in 0..MaxProgressComponents |-> count_total_combinations(n)]

IntervalOfSize ==
    [n \in 0..MaxProgressComponents |->
        CHOOSE k \in 1..100 :
            /\ AttemptTrigger(k, TotalOfSize[n])
            /\ \A j \in 1..(k - 1) : ~AttemptTrigger(j, TotalOfSize[n])]

\* C24: the attempt interval of a run is fixed by its total: 10 for a total
\* up to 1000 and 100 above; it is never shorter for a larger total; and an
\* attempt after the first five that neither matches nor comes 30 seconds
\* after the last report is reported exactly at the multiples of that
\* interval, so that a large run is silent at the multiples of 10 that are
\* not multiples of 100.
C24_IntervalWidensWithTotal ==
    /\ [](pc \in {"Looping", "Terminated"} =>
            LET n == Len(components)
            IN  /\ total_combinations = TotalOfSize[n]
                /\ IntervalOfSize[n] = (IF total_combinations <= 1000 THEN 10 ELSE 100)
                /\ \A m \in 0..MaxProgressComponents :
                      TotalOfSize[m] <= TotalOfSize[n] =>
                          IntervalOfSize[m] <= IntervalOfSize[n])
    /\ [][(/\ attempt' = attempt + 1
           /\ attempt' > 5
           /\ ~match_found'
           /\ current_time' - last_progress_time < 30) =>
              (show_progress' <=> attempt' % IntervalOfSize[Len(components)] = 0)]_vars

C24_Witness ==
    /\ total_combinations > 1000
    /\ attempt = 110
    /\ ~show_progress
    /\ pc = "Looping"

\* C25: memory is sampled only in an attempt that is reported; whenever a
\* sample is above 1000 MB the collection runs in that attempt, before the
\* next candidate; and the collection changes neither the counter, nor what
\* the generator has left, nor the outcome.
C25_MemorySampledAtReports ==
    /\ memory_usage.sampled => show_progress
    /\ (memory_usage.sampled /\ memory_usage.available
          /\ memory_usage.rss_mb > 1000) => gc_collected
    /\ (pc = "Looping" /\ attempt >= 1) =>
          attempt + yields_left = YieldCount[Len(components)] - 1
    /\ (pc = "Looping" /\ gc_collected) => outcome = NoOutcome

\* The words of the mnemonic string that was parsed.
InputWords == SplitWhitespace(share_input, <<>>)

\* The j-th of the shares of s words each of the words.
ShareOf(words, s, j) == JoinStr(<<" ">>, SubSeq(words, (j - 1) * s + 1, j * s))

\* C26: a line of k >= 2 complete shares of s words each, s = 20 or s = 33,
\* is parsed into exactly these k shares, each with its s words in their
\* order; a line of fewer than 40 words is parsed into one share, with all
\* its words in their order.
C26_SharesOfOneLine ==
    pc = "SharesParsed" =>
        LET words == InputWords
            n     == Len(words)
        IN  /\ \A s \in {20, 33} : \A k \in 2..n :
                  n = k * s => shares = [j \in 1..k |-> ShareOf(words, s, j)]
            /\ n < 40 =>
                  /\ Len(shares) = 1
                  /\ SplitWhitespace(shares[1], <<>>) = words

\* C28: in main.py, whenever the search has found a working passphrase, the
\* empty one included, the run reports success for that passphrase and does
\* not report that nothing was found.
C28_FoundIsReportedByMainPy ==
    (engine = "slip39" /\ Terminated("Found")) =>
        /\ report.found
        /\ report.candidate = outcome.candidate

\* C27: _make_rpc_call posts one request at most max_retries times, posts
\* nothing after the first HTTP response it gets, and returns None when its
\* attempts are used up without a body; it returns also for max_retries = 0.
C27_StopsAtFirstResponse ==
    last_rpc.kind = "single" =>
        /\ Len(last_rpc.sent) <= max_retries
        /\ \A k \in 1..Len(last_rpc.outcomes) :
              last_rpc.outcomes[k] \in {"status", "json"} => k = Len(last_rpc.sent)
        /\ last_rpc.how # "json" => last_rpc.value = NoneStr

\* The addresses of the batch call just made.
Passed == {last_rpc.addresses[i] : i \in 1..Len(last_rpc.addresses)}

\* C29: get_multiple_balances returns one entry for every address passed; the
\* entry of an address is the one of the response object the node gave to the
\* request of that address, wherever it stands in the body; when no attempt
\* gets a body, every address maps to None.
C29_BalancesOfTheAddressesPassed ==
    last_rpc.kind = "batch" =>
        /\ DOMAIN last_rpc.results = Passed
        /\ Cardinality(Passed) = Len(last_rpc.addresses) =>
              \A i \in 1..Len(last_rpc.addresses), k \in 1..Len(last_rpc.body) :
                  last_rpc.body[k].id = last_rpc.ids[i] =>
                      last_rpc.results[last_rpc.addresses[i]]
                          = BalanceOf(last_rpc.body[k])
        /\ last_rpc.how \in {"gave_up", "fell_through"} =>
              \A a \in Passed : last_rpc.results[a] = NoBalance

\* C30: no two JSON-RPC requests built by one checker carry the same id:
\* request_count grows with every call by the number of requests the call
\* builds, one for a single call and the size of the batch for a batch call,
\* and every post of a call carries the ids the call built.
C30_RequestIdsAreUnique ==
    /\ [](/\ \A i, j \in 1..Len(issued) : i # j => issued[i] # issued[j]
          /\ \A k \in 1..Len(last_rpc.sent) : last_rpc.sent[k] = last_rpc.ids
          /\ last_rpc.kind = "single" => Len(last_rpc.ids) = 1
          /\ last_rpc.kind = "batch" => Len(last_rpc.ids) = Len(last_rpc.addresses))
    /\ [][/\ request_count' = request_count + Len(last_rpc'.ids)
          /\ issued' = issued \o last_rpc'.ids]_vars

\* A single call, retried once, made after a batch of two.
C30_Witness ==
    /\ last_rpc.kind = "single"
    /\ Len(last_rpc.sent) = 2
    /\ issued = <<0, 1, 2>>
    /\ request_count = 3

====
